---- MODULE Spec2Model ----
(***************************************************************************)
(* Model of ci.py: the staging workflow that clones (or restores) the      *)
(* downstream project into ci-tmp, removes its 'libs' submodule, resyncs   *)
(* the remaining submodules and copies the local tree into ci-tmp/libs.    *)
(*                                                                         *)
(* File contents are sequences of atoms.  An atom is either a line-break   *)
(* character ("NL", "CR") or a chunk of text holding no line break:        *)
(*   "WS"  a run of blanks/tabs                                            *)
(*   "T"   the text  [submodule "libs"]                                    *)
(*   "H"   any other text starting with '['  (another section header)      *)
(*   "K"   any other text (a key = value pair, a comment)                  *)
(***************************************************************************)
EXTENDS Naturals, Integers, Sequences, FiniteSets, TLC

\* ------------------------------------------------------------------ bounds
MaxLen == 5

Atoms == {"NL", "CR", "WS", "T", "H", "K"}

\* texts, new_lines        the fallback run on its own: the successive contents
\*                         of one file, and the loop's new_lines
\* fs                      the directory tree below the working directory
\* pc                      the statement main (or the called function) is at
\* args                    the arguments copy_local_repo_to_libs was called with
\* modified_gitmodules     the local flag of remove_submodule
\* log                     the external commands and file operations started
\* writes                  the paths the program itself created, wrote or deleted
\* exit                    <<>> while the process runs, then <<its exit status>>
\* start                   the tree when the process started
\* img                     the tree a clone of the upstream repository yields
VARIABLES texts, new_lines, fs, pc, args, modified_gitmodules, log, writes,
          exit, img, start

fileVars == <<texts, new_lines>>
flowVars == <<fs, pc, args, modified_gitmodules, log, writes, exit, img,
              start>>
vars == <<texts, new_lines, fs, pc, args, modified_gitmodules, log, writes,
          exit, img, start>>

NoArgs == [src_root |-> <<>>, dst_libs |-> <<>>, exclude_dir |-> ""]

\* ------------------------------------------------- text helpers (ci.py 37-50)

\* Path.read_text(): text mode with universal newlines, "\r\n" and "\r" -> "\n".
RECURSIVE ReadText(_)
ReadText(bytes) ==
    IF bytes = <<>> THEN <<>>
    ELSE IF Head(bytes) = "CR"
         THEN IF Len(bytes) >= 2 /\ bytes[2] = "NL"
              THEN <<"NL">> \o ReadText(Tail(Tail(bytes)))
              ELSE <<"NL">> \o ReadText(Tail(bytes))
         ELSE <<Head(bytes)>> \o ReadText(Tail(bytes))

\* str.splitlines(): breaks at line boundaries, the line break is dropped and a
\* final line break opens no further (empty) line.  "\r\n" is one boundary.
RECURSIVE SplitFrom(_, _)
SplitFrom(s, cur) ==
    IF s = <<>> THEN (IF cur = <<>> THEN <<>> ELSE <<cur>>)
    ELSE IF Head(s) = "NL" THEN <<cur>> \o SplitFrom(Tail(s), <<>>)
    ELSE IF Head(s) = "CR"
         THEN IF Len(s) >= 2 /\ s[2] = "NL"
              THEN <<cur>> \o SplitFrom(Tail(Tail(s)), <<>>)
              ELSE <<cur>> \o SplitFrom(Tail(s), <<>>)
    ELSE SplitFrom(Tail(s), Append(cur, Head(s)))

SplitLines(s) == SplitFrom(s, <<>>)

\* line.strip(): leading blanks dropped (trailing ones do not matter to startswith)
RECURSIVE LStrip(_)
LStrip(line) ==
    IF line # <<>> /\ Head(line) = "WS" THEN LStrip(Tail(line)) ELSE line

RECURSIVE RStrip(_)
RStrip(line) ==
    IF line # <<>> /\ line[Len(line)] = "WS"
    THEN RStrip(SubSeq(line, 1, Len(line) - 1)) ELSE line

Strip(line) == RStrip(LStrip(line))

\* line.strip().startswith('[submodule "libs"]')
IsTargetHeader(line) == Strip(line) # <<>> /\ Head(Strip(line)) = "T"

\* line.strip().startswith("[")
IsHeader(line) == Strip(line) # <<>> /\ Head(Strip(line)) \in {"T", "H"}

\* the loop of lines 41-48: the state is (skip, new_lines)
RECURSIVE FilterLoopDropsNext(_, _, _)
FilterLoopDropsNext(lines, skip, acc) ==
    IF lines = <<>> THEN acc
    ELSE LET line == Head(lines) IN
         IF IsTargetHeader(line) THEN FilterLoopDropsNext(Tail(lines), TRUE, acc)
         ELSE IF ~skip THEN FilterLoopDropsNext(Tail(lines), FALSE, Append(acc, line))
              ELSE FilterLoopDropsNext(Tail(lines), ~IsHeader(line), acc)

RECURSIVE FilterLoop(_, _, _)
FilterLoop(lines, skip, acc) ==
    IF lines = <<>> THEN acc
    ELSE LET line == Head(lines) IN
         IF IsTargetHeader(line) THEN FilterLoop(Tail(lines), TRUE, acc)
         ELSE LET skip2 == IF skip /\ IsHeader(line) THEN FALSE ELSE skip IN
              IF ~skip2 THEN FilterLoop(Tail(lines), skip2, Append(acc, line))
              ELSE FilterLoop(Tail(lines), skip2, acc)

\* "\n".join(new_lines) + "\n"
RECURSIVE JoinNL(_)
JoinNL(ls) ==
    IF ls = <<>> THEN <<>>
    ELSE IF Len(ls) = 1 THEN Head(ls)
    ELSE Head(ls) \o <<"NL">> \o JoinNL(Tail(ls))

NewContentNoFinalNL(ls) == JoinNL(ls)
NewContentExtraNL(ls) == JoinNL(ls) \o <<"NL", "NL">>
NewContent(ls) == JoinNL(ls) \o <<"NL">>

\* lines 37-48: the lines the fallback keeps of a file holding `bytes`
FallbackLines(bytes) == FilterLoop(SplitLines(ReadText(bytes)), FALSE, <<>>)

\* lines 37-50: the content the fallback writes back (write_text on POSIX
\* translates nothing)
Fallback(bytes) == NewContent(FallbackLines(bytes))

\* ------------------------------------------------------ the directory tree
\* A node is a file, a directory or a symbolic link.  A link carries what it
\* resolves to (tgt, with the kids/data of the target), "none" when dangling.
NoNode == [kind |-> "none", tgt |-> "none", kids |-> <<>>, data |-> <<>>]
File(d) == [kind |-> "file", tgt |-> "none", kids |-> <<>>, data |-> d]
Dir(k) == [kind |-> "dir", tgt |-> "none", kids |-> k, data |-> <<>>]
LinkTo(n) == [kind |-> "link", tgt |-> n.kind, kids |-> n.kids, data |-> n.data]
Dangling == [kind |-> "link", tgt |-> "none", kids |-> <<>>, data |-> <<>>]

\* what stat() sees: links followed
Resolve(n) ==
    IF n.kind = "link"
    THEN [kind |-> n.tgt, tgt |-> "none", kids |-> n.kids, data |-> n.data]
    ELSE n

\* the node at a path below n, as lstat() sees it
RECURSIVE Lookup(_, _)
Lookup(n, path) ==
    IF path = <<>> THEN n
    ELSE LET r == Resolve(n) IN
         IF r.kind = "dir" /\ Head(path) \in DOMAIN r.kids
         THEN Lookup(r.kids[Head(path)], Tail(path))
         ELSE NoNode

\* Path.exists() and Path.is_dir(): both follow links
PathExists(n, path) == Resolve(Lookup(n, path)).kind # "none"
PathIsDir(n, path) == Resolve(Lookup(n, path)).kind = "dir"

\* the tree with the entry at path set to new (its parent is a directory)
RECURSIVE Store(_, _, _)
Store(n, path, new) ==
    IF Len(path) = 1
    THEN [n EXCEPT !.kids = (Head(path) :> new) @@ n.kids]
    ELSE [n EXCEPT !.kids =
            (Head(path) :> Store(n.kids[Head(path)], Tail(path), new)) @@ n.kids]

\* Path.mkdir(parents=True, exist_ok=True) on a path that does not exist
RECURSIVE MkdirP(_, _)
MkdirP(n, path) ==
    IF path = <<>> THEN n
    ELSE LET sub == IF Head(path) \in DOMAIN n.kids
                    THEN n.kids[Head(path)] ELSE Dir(<<>>) IN
         [n EXCEPT !.kids = (Head(path) :> MkdirP(sub, Tail(path))) @@ n.kids]

\* shutil.rmtree(path, ignore_errors=True): the entries named in `left`
\* survive (a deletion error is swallowed); left = {} and gone = TRUE is the
\* complete deletion.
RECURSIVE RmTree(_, _, _, _)
RmTree(n, path, gone, left) ==
    IF Len(path) = 1
    THEN IF gone
         THEN [n EXCEPT !.kids = [c \in (DOMAIN n.kids) \ {Head(path)} |-> n.kids[c]]]
         ELSE LET d == n.kids[Head(path)] IN
              [n EXCEPT !.kids =
                 (Head(path) :> Dir([c \in left |-> d.kids[c]])) @@ n.kids]
    ELSE [n EXCEPT !.kids =
            (Head(path) :> RmTree(n.kids[Head(path)], Tail(path), gone, left))
                @@ n.kids]

\* shutil.copytree(src, dst, symlinks=True): src is scanned as a directory
\* (a link at the top is followed), links inside are re-created as links,
\* directories inside are copied recursively, files by copy2.
RECURSIVE CopyTreeFollowingLinks(_)
CopyTreeFollowingLinks(n) ==
    Dir([c \in DOMAIN n.kids |->
           LET k == Resolve(n.kids[c]) IN
           IF k.kind = "dir" THEN CopyTreeFollowingLinks(k) ELSE File(k.data)])

RECURSIVE CopyTree(_)
CopyTree(n) ==
    Dir([c \in DOMAIN n.kids |->
           LET k == n.kids[c] IN
           IF k.kind = "link" THEN k
           ELSE IF k.kind = "dir" THEN CopyTree(k)
           ELSE File(k.data)])

\* shutil.copytree(ci_tmp_bk, ci_tmp): symlinks=False, so links are followed;
\* a dangling link inside makes it raise once the rest is copied.
RECURSIVE HasDangling(_)
HasDangling(n) ==
    \E c \in DOMAIN n.kids :
        LET k == n.kids[c] IN
        \/ (k.kind = "link" /\ k.tgt = "none")
        \/ (Resolve(k).kind = "dir" /\ HasDangling(Resolve(k)))

RECURSIVE CopyTreeDeref(_)
CopyTreeDeref(n) ==
    Dir([c \in {d \in DOMAIN n.kids : Resolve(n.kids[d]).kind # "none"} |->
           LET k == Resolve(n.kids[c]) IN
           IF k.kind = "dir" THEN CopyTreeDeref(k) ELSE File(k.data)])

Perms(S) ==
    {f \in [1..Cardinality(S) -> S] :
        \A i, j \in 1..Cardinality(S) : i # j => f[i] # f[j]}

\* The orders iterdir() may list S in.  The excluded entry is skipped wherever
\* it comes, so it is listed first.
ListingOrders(S, excluded) ==
    IF excluded \in S
    THEN {<<excluded>> \o p : p \in Perms(S \ {excluded})}
    ELSE Perms(S)

NoFault == "<none>"

\* ---------------------------------- copy_local_repo_to_libs (ci.py 83-95)
\* The loop over src_root.iterdir(), in the order `order`; `fault` names the
\* entry at which the operating system refuses the copy (NoFault: nowhere).
\* st = [ok, root, writes].
CopyTargetInSource(src_root, dst_libs, item) == src_root \o <<item>>
CopyTarget(src_root, dst_libs, item) == dst_libs \o <<item>>

RECURSIVE CopyLoop(_, _, _, _, _, _)
CopyLoop(order, st, src_root, dst_libs, exclude_dir, fault) ==
    IF order = <<>> \/ ~st.ok THEN st
    ELSE LET item == Head(order)
             target == CopyTarget(src_root, dst_libs, item)
             n == Lookup(st.root, src_root \o <<item>>)
         IN
         IF item = exclude_dir
         THEN CopyLoop(Tail(order), st, src_root, dst_libs, exclude_dir, fault)
         ELSE IF item = fault THEN [st EXCEPT !.ok = FALSE]
         ELSE IF Resolve(n).kind = "dir"
         THEN \* copytree: os.makedirs(target) refuses an existing target
              IF PathExists(st.root, target) \/ Lookup(st.root, target).kind # "none"
              THEN [st EXCEPT !.ok = FALSE]
              ELSE CopyLoop(Tail(order),
                     [ok |-> TRUE,
                      root |-> Store(st.root, target, CopyTree(Resolve(n))),
                      writes |-> st.writes \cup {[op |-> "copytree", path |-> target]}],
                     src_root, dst_libs, exclude_dir, fault)
         ELSE \* copy2 follows a link to a file; a dangling link cannot be opened;
              \* a directory at the target receives the file under its own name
              LET into == IF PathIsDir(st.root, target)
                          THEN target \o <<item>> ELSE target IN
              IF Resolve(n).kind = "none" \/ PathIsDir(st.root, into)
              THEN [st EXCEPT !.ok = FALSE]
              ELSE CopyLoop(Tail(order),
                     [ok |-> TRUE,
                      root |-> Store(st.root, into, File(Resolve(n).data)),
                      writes |-> st.writes \cup {[op |-> "copy2", path |-> into]}],
                     src_root, dst_libs, exclude_dir, fault)

\* lines 85-95: mkdir(parents=True, exist_ok=True), then the loop over the
\* entries src_root holds once the directory is made.
CopyLocalRepoToLibs(root, src_root, dst_libs, exclude_dir, order, fault) ==
    IF PathExists(root, dst_libs) /\ ~PathIsDir(root, dst_libs)
    THEN [ok |-> FALSE, root |-> root, writes |-> {}]
    ELSE LET made == IF PathExists(root, dst_libs) THEN root
                     ELSE MkdirP(root, dst_libs)
             w == IF PathExists(root, dst_libs) THEN {}
                  ELSE {[op |-> "mkdir", path |-> dst_libs]}
         IN CopyLoop(order, [ok |-> TRUE, root |-> made, writes |-> w],
                     src_root, dst_libs, exclude_dir, fault)

\* the entries iterdir() lists: those of src_root once dst_libs is made
EntriesListed(root, src_root, dst_libs) ==
    LET made == IF PathExists(root, dst_libs) THEN root ELSE MkdirP(root, dst_libs)
    IN DOMAIN Resolve(Lookup(made, src_root)).kids

\* ------------------------------------------------ the fallback on its own
FilterInit ==
    /\ \E n \in 0..MaxLen : \E t \in [1..n -> Atoms] : texts = <<t>>
    /\ new_lines = <<>>
    /\ fs = NoNode /\ pc = "fallback_only" /\ args = NoArgs
    /\ modified_gitmodules = FALSE /\ log = <<>> /\ writes = {}
    /\ exit = <<>> /\ img = NoNode /\ start = NoNode

\* one run of the fallback branch on the current file content
ApplyFallback ==
    /\ Len(texts) < 3
    /\ new_lines' = FallbackLines(texts[Len(texts)])
    /\ texts' = Append(texts, Fallback(texts[Len(texts)]))
    /\ UNCHANGED flowVars

FilterNext == ApplyFallback

SpecFilter == FilterInit /\ [][FilterNext]_vars


\* --------------------------- copy_local_repo_to_libs called on its own
MaxDepth == 1

\* the shapes of an entry, nested to depth d; inner entries are named "x"
RECURSIVE Shapes(_)
Shapes(d) ==
    LET flat == {File(<<>>), LinkTo(File(<<>>)), Dangling} IN
    IF d = 0 THEN flat
    ELSE LET inner == {<<>>} \cup {("x" :> s) : s \in Shapes(d - 1)} IN
         flat \cup {Dir(k) : k \in inner} \cup {LinkTo(Dir(k)) : k \in inner}

EntryNames == {"README", "zlib"}

SourceDirs ==
    {Dir(e) : e \in UNION {[S -> Shapes(MaxDepth)] : S \in SUBSET EntryNames}}
        \cup {Dir(("ci-tmp" :> Dir(<<>>)) @@ e) :
                e \in UNION {[S -> Shapes(MaxDepth)] : S \in SUBSET EntryNames}}

\* the destination before the call: absent, empty, or holding an entry
DestDirs ==
    { Dir(<<>>),
      Dir("libs" :> Dir(<<>>)),
      Dir("libs" :> Dir("README" :> File(<<>>))),
      Dir("libs" :> Dir("old" :> Dir(<<>>))) }

CopyInit ==
    /\ \E s \in SourceDirs, d \in DestDirs \cup {NoNode} :
          fs = IF d = NoNode THEN Dir("work" :> s)
               ELSE Dir(("work" :> s) @@ ("out" :> d))
    /\ \E x \in {"ci-tmp", "zlib"} :
          args = [src_root |-> <<"work">>, dst_libs |-> <<"out", "libs">>,
                  exclude_dir |-> x]
    /\ start = fs
    /\ pc = "call_copy"
    /\ writes = {}
    /\ log = <<>>
    /\ modified_gitmodules = FALSE
    /\ exit = <<>>
    /\ img = NoNode
    /\ texts = <<>> /\ new_lines = <<>>

CallCopy ==
    /\ pc = "call_copy"
    /\ \E order \in ListingOrders(EntriesListed(fs, args.src_root, args.dst_libs),
                                   args.exclude_dir),
          fault \in (EntriesListed(fs, args.src_root, args.dst_libs)
                       \ {args.exclude_dir}) \cup {NoFault} :
          LET r == CopyLocalRepoToLibs(fs, args.src_root, args.dst_libs,
                                       args.exclude_dir, order, fault) IN
          /\ fs' = r.root
          /\ writes' = r.writes
          /\ pc' = IF r.ok THEN "copy_returned" ELSE "copy_raised"
    /\ UNCHANGED <<texts, new_lines, args, modified_gitmodules, log, exit, img,
                   start>>

CopyNext == CallCopy

SpecCopy == CopyInit /\ [][CopyNext]_vars

\* ------------------------------------------------------ main (ci.py 98-123)
root == <<>>
ci_tmp == root \o <<"ci-tmp">>
ci_tmp_bk == root \o <<"ci-tmp-bk">>
dst_libs_main == ci_tmp \o <<"libs">>

\* remove_submodule(path, name): the paths of lines 26, 73 and 78
GitmodulesPath(path) == path \o <<".gitmodules">>
SubmodulePath(path, name) == path \o <<name>>
ModulesDir(path, name) == path \o <<".git", "modules", name>>

\* the return codes a failed external command may have: an exit code, or the
\* negated number of the signal that killed it
RetCodes == {1, 128, -9}

\* sys.exit(e.returncode): the status the parent sees is the low byte
StatusAlwaysZero(returncode) == 0
ExitStatus(returncode) == returncode % 256

Event(op, path, ok, rc) == [op |-> op, path |-> path, ok |-> ok, rc |-> rc]

\* run(...) raised CalledProcessError outside any try block: lines 129-131
Abort(op, path, rc) ==
    /\ log' = Append(log, Event(op, path, FALSE, rc))
    /\ exit' = <<ExitStatus(rc)>>
    /\ pc' = "exited"

\* any other exception leaves through the interpreter: traceback, status 1
Uncaught(op, path) ==
    /\ log' = Append(log, Event(op, path, FALSE, 0))
    /\ exit' = <<1>>
    /\ pc' = "exited"

\* git config -f .gitmodules --remove-section submodule.libs, when it succeeds:
\* git rewrites the file without the lines of the section
GitRemoveSection(b) ==
    LET L == SplitLines(b)
        keep == {p \in 1..Len(b) :
                   LET n == 1 + Cardinality({q \in 1..(p - 1) : b[q] = "NL"}) IN
                   ~\E j \in 1..n : /\ IsTargetHeader(L[j])
                                     /\ \A k \in (j + 1)..n : ~IsHeader(L[k])}
    IN [k \in 1..Cardinality(keep) |->
          b[CHOOSE i \in keep : Cardinality({j \in keep : j <= i}) = k]]

GitFindsSection(b) == \E i \in 1..Len(SplitLines(b)) : IsTargetHeader(SplitLines(b)[i])

\* lines 105-111
AcquireWanted(tree) == ~PathExists(tree, ci_tmp)
PreferClone(tree) == FALSE
PreferBackup(tree) == PathExists(tree, ci_tmp_bk)

AcquireSkip ==
    /\ pc = "acquire"
    /\ ~AcquireWanted(fs)
    /\ pc' = "rm_gitmodules"
    /\ UNCHANGED <<fs, args, modified_gitmodules, log, writes, exit, img, start>>

CopyBackup ==
    /\ pc = "acquire"
    /\ AcquireWanted(fs) /\ PreferBackup(fs)
    /\ LET bk == Resolve(Lookup(fs, ci_tmp_bk)) IN
       \/ /\ ~HasDangling(bk)
          /\ fs' = Store(fs, ci_tmp, CopyTreeDeref(bk))
          /\ log' = Append(log, Event("copy_backup", ci_tmp, TRUE, 0))
          /\ pc' = "rm_gitmodules"
          /\ UNCHANGED exit
       \/ /\ \E partial \in {fs, Store(fs, ci_tmp, Dir(<<>>)),
                             Store(fs, ci_tmp, CopyTreeDeref(bk))} : fs' = partial
          /\ Uncaught("copy_backup", ci_tmp)
    /\ writes' = writes \cup {[op |-> "copytree", path |-> ci_tmp]}
    /\ UNCHANGED <<args, modified_gitmodules, img, start>>

Clone ==
    /\ pc = "acquire"
    /\ AcquireWanted(fs) /\ ~PreferBackup(fs)
    /\ \/ /\ fs' = Store(fs, ci_tmp, img)
          /\ log' = Append(log, Event("clone", root, TRUE, 0))
          /\ pc' = "rm_gitmodules"
          /\ UNCHANGED exit
       \/ /\ \E rc \in RetCodes : Abort("clone", root, rc)
          /\ UNCHANGED fs
    /\ UNCHANGED <<args, modified_gitmodules, writes, img, start>>

\* ----------------------------------------- remove_submodule (ci.py 23-80)
\* lines 30-35: the structured removal
ConfigRemoveGitmodules ==
    /\ pc = "rm_gitmodules"
    /\ LET p == GitmodulesPath(ci_tmp)
           f == Resolve(Lookup(fs, p)) IN
       IF ~PathExists(fs, p)
       THEN /\ pc' = "stage"
            /\ UNCHANGED <<fs, log, modified_gitmodules>>
       ELSE \/ /\ GitFindsSection(f.data)
               /\ fs' = Store(fs, p, File(GitRemoveSection(f.data)))
               /\ log' = Append(log, Event("config_remove_gitmodules", ci_tmp, TRUE, 0))
               /\ modified_gitmodules' = TRUE
               /\ pc' = "stage"
            \/ /\ log' = Append(log, Event("config_remove_gitmodules", ci_tmp, FALSE, 1))
               /\ pc' = "fallback"
               /\ UNCHANGED <<fs, modified_gitmodules>>
    /\ UNCHANGED <<args, writes, exit, img, start>>

\* lines 37-51: the manual removal
FlagAfterFallbackUnset(flag) == flag
FlagAfterFallback(flag) == TRUE

ManualRemoval ==
    /\ pc = "fallback"
    /\ LET p == GitmodulesPath(ci_tmp)
           f == Resolve(Lookup(fs, p)) IN
       \/ /\ fs' = Store(fs, p, File(Fallback(f.data)))
          /\ writes' = writes \cup {[op |-> "write_text", path |-> p]}
          /\ log' = Append(log, Event("fallback", p, TRUE, 0))
          /\ modified_gitmodules' = FlagAfterFallback(modified_gitmodules)
          /\ pc' = "stage"
          /\ UNCHANGED exit
       \/ \* read_text or write_text raises (OSError, UnicodeDecodeError)
          /\ Uncaught("fallback", p)
          /\ UNCHANGED <<fs, writes, modified_gitmodules>>
    /\ UNCHANGED <<args, img, start>>

\* a command inside try/except CalledProcessError: a failure is only reported
Tolerated(op, next) ==
    /\ \/ log' = Append(log, Event(op, ci_tmp, TRUE, 0))
       \/ log' = Append(log, Event(op, ci_tmp, FALSE, 1))
    /\ pc' = next
    /\ UNCHANGED exit

NotTolerated(op, next) ==
    \/ /\ log' = Append(log, Event(op, ci_tmp, TRUE, 0))
       /\ pc' = next
       /\ UNCHANGED exit
    \/ \E rc \in RetCodes : Abort(op, ci_tmp, rc)

\* lines 54-58
StageWanted(flag, tree) == flag

StageGitmodules ==
    /\ pc = "stage"
    /\ IF StageWanted(modified_gitmodules, fs)
       THEN Tolerated("git_add", "rm_config")
       ELSE pc' = "rm_config" /\ UNCHANGED <<log, exit>>
    /\ UNCHANGED <<fs, args, modified_gitmodules, writes, img, start>>

\* lines 61-64
RunConfigRemove(op, next) == Tolerated(op, next)

ConfigRemoveLocal ==
    /\ pc = "rm_config"
    /\ RunConfigRemove("config_remove_local", "git_rm")
    /\ UNCHANGED <<fs, args, modified_gitmodules, writes, img, start>>

\* lines 67-70: --cached leaves the working tree alone
RunGitRmOutsideTry(op, next) == NotTolerated(op, next)
RunGitRm(op, next) == Tolerated(op, next)

GitRmCached ==
    /\ pc = "git_rm"
    /\ RunGitRm("git_rm_cached", "rm_dir")
    /\ UNCHANGED <<fs, args, modified_gitmodules, writes, img, start>>

\* lines 73-75 and 78-80: rmtree(ignore_errors=True) of a path that exists
DeleteIfExists(p, next) ==
    /\ IF PathExists(fs, p)
       THEN /\ IF Lookup(fs, p).kind = "dir"
               THEN \/ fs' = RmTree(fs, p, TRUE, {})
                    \/ \E left \in SUBSET DOMAIN Lookup(fs, p).kids :
                         /\ left # {}
                         /\ fs' = RmTree(fs, p, FALSE, left)
               ELSE fs' = fs     \* rmtree refuses a link or a file; ignored
            /\ writes' = writes \cup {[op |-> "rmtree", path |-> p]}
            /\ log' = Append(log, Event("rmtree", p, TRUE, 0))
       ELSE UNCHANGED <<fs, writes, log>>
    /\ pc' = next

DeleteSubmoduleDir ==
    /\ pc = "rm_dir"
    /\ DeleteIfExists(SubmodulePath(ci_tmp, "libs"), "rm_meta")
    /\ UNCHANGED <<args, modified_gitmodules, exit, img, start>>

DeleteModulesDir ==
    /\ pc = "rm_meta"
    /\ DeleteIfExists(ModulesDir(ci_tmp, "libs"), "sync")
    /\ UNCHANGED <<args, modified_gitmodules, exit, img, start>>

\* lines 118-119
RunSync(op, next) == NotTolerated(op, next)

SubmoduleSync ==
    /\ pc = "sync"
    /\ RunSync("submodule_sync", "update")
    /\ UNCHANGED <<fs, args, modified_gitmodules, writes, img, start>>

RunUpdateInsideTry(op, next) == Tolerated(op, next)
RunUpdate(op, next) == NotTolerated(op, next)

SubmoduleUpdate ==
    /\ pc = "update"
    /\ RunUpdate("submodule_update", "copy")
    /\ UNCHANGED <<fs, args, modified_gitmodules, writes, img, start>>

\* lines 122-123, then the end of main (exit status 0) or the traceback
CopyLocal ==
    /\ pc = "copy"
    /\ args' = [src_root |-> root, dst_libs |-> dst_libs_main, exclude_dir |-> "ci-tmp"]
    /\ \E order \in ListingOrders(EntriesListed(fs, root, dst_libs_main), "ci-tmp"),
          fault \in (EntriesListed(fs, root, dst_libs_main) \ {"ci-tmp"}) \cup {NoFault} :
          LET r == CopyLocalRepoToLibs(fs, root, dst_libs_main, "ci-tmp", order, fault) IN
          /\ fs' = r.root
          /\ writes' = writes \cup r.writes
          /\ log' = Append(log, Event("copy_local", dst_libs_main, r.ok, 0))
          /\ exit' = IF r.ok THEN <<0>> ELSE <<1>>
          /\ pc' = "exited"
    /\ UNCHANGED <<modified_gitmodules, img, start>>

\* ------------------------------------------------------- the inputs of a run
GitmodulesSamples ==
    { <<"H", "NL", "K", "NL">>,
      <<"H", "NL", "K", "NL", "T", "NL", "K", "NL">>,
      <<"T", "NL", "K", "NL">> }

LibsSamples == { Dir("README" :> File(<<>>)) }

Images ==
    LET withGm == {<<>>} \cup {(".gitmodules" :> File(g)) : g \in GitmodulesSamples}
        withLibs == {(".git" :> Dir(<<>>))}
                      \cup {("libs" :> l) @@
                            (".git" :> Dir("modules" :> Dir("libs" :> Dir(<<>>)))) :
                              l \in LibsSamples}
    IN {Dir(g @@ l) : g \in withGm, l \in withLibs}

TopSamples ==
    { ("README" :> File(<<>>)) @@ ("zlib" :> Dir("x" :> LinkTo(File(<<>>)))),
      ("README" :> LinkTo(File(<<>>))) @@ ("zlib" :> LinkTo(Dir("x" :> File(<<>>)))),
      ("README" :> Dangling) }

Init ==
    /\ img \in Images
    /\ \E top \in TopSamples, haveTmp \in BOOLEAN, haveBk \in BOOLEAN :
          fs = Dir(top @@ (IF haveTmp THEN ("ci-tmp" :> img) ELSE <<>>)
                       @@ (IF haveBk THEN ("ci-tmp-bk" :> img) ELSE <<>>))
    /\ start = fs
   
    /\ pc = "acquire"
    /\ args = NoArgs
    /\ modified_gitmodules = FALSE
    /\ log = <<>>
    /\ writes = {}
    /\ exit = <<>>
    /\ texts = <<>> /\ new_lines = <<>>

Next ==
    \/ (AcquireSkip /\ UNCHANGED fileVars)
    \/ (CopyBackup /\ UNCHANGED fileVars)
    \/ (Clone /\ UNCHANGED fileVars)
    \/ (ConfigRemoveGitmodules /\ UNCHANGED fileVars)
    \/ (ManualRemoval /\ UNCHANGED fileVars)
    \/ (StageGitmodules /\ UNCHANGED fileVars)
    \/ (ConfigRemoveLocal /\ UNCHANGED fileVars)
    \/ (GitRmCached /\ UNCHANGED fileVars)
    \/ (DeleteSubmoduleDir /\ UNCHANGED fileVars)
    \/ (DeleteModulesDir /\ UNCHANGED fileVars)
    \/ (SubmoduleSync /\ UNCHANGED fileVars)
    \/ (SubmoduleUpdate /\ UNCHANGED fileVars)
    \/ (CopyLocal /\ UNCHANGED fileVars)

Spec == Init /\ [][Next]_vars

\* ----------------------------------------------- what the claims speak about
\* The file before the last run of the fallback, and the lines the loop read.
text0 == texts[1]
prevText == texts[Len(texts) - 1]
lastText == texts[Len(texts)]
LinesRead(bytes) == SplitLines(ReadText(bytes))

\* Line i lies in a block of the target: the nearest line at or before i whose
\* stripped text starts with '[' is a header of the target.
InBlock(L, i) ==
    \E j \in 1..i : /\ IsTargetHeader(L[j])
                    /\ \A k \in (j + 1)..i : ~IsHeader(L[k])

\* The subsequence of s at the positions in S, in order.
SubSeqAt(s, S) ==
    [k \in 1..Cardinality(S) |->
        s[CHOOSE i \in S : Cardinality({j \in S : j <= i}) = k]]

LinesOutsideBlocks(L) == SubSeqAt(L, {i \in 1..Len(L) : ~InBlock(L, i)})

\* Byte-level view, with no splitting or joining: byte p belongs to the line
\* numbered one more than the count of "NL" before p.
LineOfByte(b, p) == 1 + Cardinality({q \in 1..(p - 1) : b[q] = "NL"})
LineText(b, n) == SubSeqAt(b, {p \in 1..Len(b) : LineOfByte(b, p) = n /\ b[p] # "NL"})
NumLines(b) == Cardinality({p \in 1..Len(b) : b[p] = "NL"})
                 + (IF b # <<>> /\ b[Len(b)] # "NL" THEN 1 ELSE 0)
ByteLines(b) == [n \in 1..NumLines(b) |-> LineText(b, n)]
BytesOutsideBlocks(b) ==
    SubSeqAt(b, {p \in 1..Len(b) : ~InBlock(ByteLines(b), LineOfByte(b, p))})

HasTargetSection(b) == \E n \in 1..NumLines(b) : IsTargetHeader(ByteLines(b)[n])
NumTargetHeaders(b) ==
    Cardinality({n \in 1..NumLines(b) : IsTargetHeader(ByteLines(b)[n])})

\* Well-formed registry file: lines ended by a single "NL" each (no "CR"), no
\* empty line, the first line a section header, one header for the target.
WellFormed(b) ==
    /\ b # <<>> /\ b[Len(b)] = "NL"
    /\ \A p \in 1..Len(b) : b[p] # "CR"
    /\ \A n \in 1..NumLines(b) : ByteLines(b)[n] # <<>>
    /\ IsHeader(ByteLines(b)[1])
    /\ NumTargetHeaders(b) = 1

OneTrailingNewline(b) ==
    /\ b # <<>> /\ b[Len(b)] = "NL"
    /\ Len(b) >= 2 => b[Len(b) - 1] # "NL"

HasLineOutsideBlock(b) ==
    \E n \in 1..NumLines(b) : ~InBlock(ByteLines(b), n)

LFTerminated(b) ==
    /\ b # <<>> /\ b[Len(b)] = "NL"
    /\ \A p \in 1..Len(b) : b[p] # "CR"

C8_FilterKeepsExactlyOutside ==
    Len(texts) >= 2 =>
        LET L == LinesRead(prevText) IN
        /\ new_lines = LinesOutsideBlocks(L)
        /\ \A i \in 1..Len(L) :
              /\ (IsHeader(L[i]) /\ ~IsTargetHeader(L[i])) => ~InBlock(L, i)
              /\ (\A j \in 1..i : ~IsTargetHeader(L[j])) => ~InBlock(L, i)

C8_Witness ==
    /\ Len(texts) = 2
    /\ LET L == LinesRead(text0) IN
         /\ Len(L) >= 3
         /\ \E i \in 1..Len(L) : \E j \in (i + 1)..Len(L) : \E k \in (j + 1)..Len(L) :
               /\ IsTargetHeader(L[i]) /\ L[j] # <<>> /\ ~IsHeader(L[j]) /\ InBlock(L, j)
               /\ IsHeader(L[k]) /\ ~IsTargetHeader(L[k])
         /\ Len(new_lines) = Len(L) - 2

\* ------------------------------------------------ the claims on the workflow
Positions(op) == {i \in 1..Len(log) : log[i].op = op}
Attempted(op) == Positions(op) # {}
Succeeded(op) == \E i \in Positions(op) : log[i].ok
Count(op) == Cardinality(Positions(op))
IsPrefix(p, q) == Len(p) <= Len(q) /\ SubSeq(q, 1, Len(p)) = p

FatalCommands == {"clone", "submodule_sync", "submodule_update"}
FatalSteps == FatalCommands \cup {"copy_backup"}
ToleratedCommands ==
    {"config_remove_gitmodules", "git_add", "config_remove_local", "git_rm_cached"}

\* C3 as stated: after the copy the destination holds exactly the N-1 entries
\* of the source other than the excluded one, directories copied recursively
\* and every symbolic link still a link.
RECURSIVE SameTree(_, _)
SameTree(s, d) ==
    /\ d.kind = "dir"
    /\ DOMAIN d.kids = DOMAIN s.kids
    /\ \A c \in DOMAIN s.kids :
          LET k == s.kids[c] IN
          IF k.kind = "link" THEN d.kids[c] = k
          ELSE IF k.kind = "dir" THEN SameTree(k, d.kids[c])
          ELSE d.kids[c] = File(k.data)

SourceEntries == Resolve(Lookup(fs, args.src_root)).kids
DestEntries == Resolve(Lookup(fs, args.dst_libs)).kids
DestEmptyBefore ==
    \/ ~PathExists(start, args.dst_libs)
    \/ /\ PathIsDir(start, args.dst_libs)
       /\ DOMAIN Resolve(Lookup(start, args.dst_libs)).kids = {}

C3_Original ==
    (pc = "copy_returned" /\ args.exclude_dir \in DOMAIN SourceEntries) =>
        /\ DOMAIN DestEntries = (DOMAIN SourceEntries) \ {args.exclude_dir}
        /\ Cardinality(DOMAIN DestEntries) = Cardinality(DOMAIN SourceEntries) - 1
        /\ \A c \in DOMAIN DestEntries :
              LET s == SourceEntries[c]  d == DestEntries[c] IN
              IF s.kind = "link" THEN d = s
              ELSE IF s.kind = "dir" THEN SameTree(s, d)
              ELSE d = File(s.data)

\* C3 amended: when the destination was absent or empty and every copy
\* succeeded, it holds exactly the N-1 entries of the source other than the
\* excluded one; a directory is copied recursively with the links inside it
\* still links; a link at the top level is followed (a link to a file becomes
\* a regular file, a link to a directory a real directory), and none dangles.
C3_CopyLeavesNMinusOne ==
    (pc = "copy_returned" /\ args.exclude_dir \in DOMAIN SourceEntries
                          /\ DestEmptyBefore) =>
        /\ DOMAIN DestEntries = (DOMAIN SourceEntries) \ {args.exclude_dir}
        /\ Cardinality(DOMAIN DestEntries) = Cardinality(DOMAIN SourceEntries) - 1
        /\ \A c \in DOMAIN DestEntries :
              LET s == SourceEntries[c]  d == DestEntries[c] IN
              /\ d.kind # "link"
              /\ Resolve(s).kind # "none"
              /\ IF Resolve(s).kind = "dir" THEN SameTree(Resolve(s), d)
                 ELSE d = File(Resolve(s).data)

C3_Witness ==
    /\ pc = "copy_returned" /\ DestEmptyBefore
    /\ args.exclude_dir \in DOMAIN SourceEntries
    /\ Cardinality(DOMAIN DestEntries) = 2
    /\ \E c \in DOMAIN DestEntries :
          /\ SourceEntries[c].kind = "dir"
          /\ \E x \in DOMAIN DestEntries[c].kids : DestEntries[c].kids[x].kind = "link"
    /\ \E c \in DOMAIN DestEntries :
          SourceEntries[c].kind = "link" /\ DestEntries[c].kind = "file"

\* C4: once main is past the acquisition, the clone and backup-copy counts are
\* those the two directory tests at the start dictate (never both), and the
\* acquisition is the first thing in the log, before any removal step.
C4_AcquisitionByExistence ==
    /\ pc = "acquire" => log = <<>>
    /\ pc # "acquire" =>
         LET t == PathExists(start, ci_tmp)
             b == PathExists(start, ci_tmp_bk) IN
         /\ Count("clone") = (IF ~t /\ ~b THEN 1 ELSE 0)
         /\ Count("copy_backup") = (IF ~t /\ b THEN 1 ELSE 0)
         /\ Count("clone") + Count("copy_backup") <= 1
         /\ \A i \in 1..Len(log) :
               log[i].op \in {"clone", "copy_backup"} => i = 1
         /\ \A i \in Positions("copy_backup") : log[i].path = ci_tmp

C4_Witness ==
    /\ pc = "sync"
    /\ Count("copy_backup") = 1 /\ Count("clone") = 0
    /\ Attempted("git_rm_cached")

\* C5: a failed clone, backup copy, submodule sync or submodule update is the
\* last thing the process starts: it has exited, the final copy was never
\* started, and nothing of ci-tmp was removed afterwards.
C5_FatalFailureAborts ==
    \A i \in 1..Len(log) :
        (log[i].op \in FatalSteps /\ ~log[i].ok) =>
            /\ i = Len(log)
            /\ pc = "exited"
            /\ ~Attempted("copy_local")
            /\ \A w \in writes : w.op = "rmtree" => w.path # ci_tmp
            /\ log[i].op \in {"submodule_sync", "submodule_update"}
                  => PathExists(fs, ci_tmp)

C5_Witness ==
    /\ pc = "exited"
    /\ log # <<>>
    /\ log[Len(log)].op = "submodule_update" /\ ~log[Len(log)].ok
    /\ Succeeded("submodule_sync")

\* C6: the exit status is 0 exactly when the four stages completed; after a
\* fatal command that exited with a code 1..255 it is that code; after any
\* other uncaught failure it is not 0.
C6_ExitStatus ==
    /\ pc # "exited" => exit = <<>>
    /\ pc = "exited" =>
         LET last == log[Len(log)] IN
         /\ Len(exit) = 1
         /\ exit = <<0>> <=> (/\ last.op = "copy_local" /\ last.ok
                              /\ Succeeded("submodule_sync")
                              /\ Succeeded("submodule_update"))
         /\ (last.op \in FatalCommands /\ ~last.ok /\ last.rc > 0)
               => exit = <<last.rc>>
         /\ (last.op \in {"copy_backup", "fallback", "copy_local"} /\ ~last.ok)
               => exit[1] # 0

C6_Witness ==
    /\ pc = "exited"
    /\ log[Len(log)].op = "submodule_sync"
    /\ log[Len(log)].rc = 128
    /\ exit = <<128>>

PastStaging ==
    \/ pc \in {"rm_config", "git_rm", "rm_dir", "rm_meta", "sync", "update", "copy"}
    \/ (pc = "exited" /\ Attempted("config_remove_local"))

GitmodulesAtEntry == Lookup(img, <<".gitmodules">>)

C10_WritesStayInStaging ==
    /\ \A w \in writes :
          /\ IsPrefix(ci_tmp, w.path)
          /\ w.op = "rmtree" =>
                w.path \in {ci_tmp \o <<"libs">>,
                            ci_tmp \o <<".git", "modules", "libs">>}
    /\ (DOMAIN fs.kids) \ {"ci-tmp"} = (DOMAIN start.kids) \ {"ci-tmp"}
    /\ \A c \in (DOMAIN start.kids) \ {"ci-tmp"} : fs.kids[c] = start.kids[c]

C10_Witness ==
    /\ exit = <<0>>
    /\ "ci-tmp-bk" \in DOMAIN fs.kids
    /\ Cardinality({w \in writes : w.op = "rmtree"}) = 2
    /\ \E w \in writes : w.op = "copytree" /\ w.path = ci_tmp \o <<"libs", "zlib">>
    /\ \E w \in writes : w.op = "write_text"

====
